---------------------------- MODULE Spec2Model ----------------------------
(***************************************************************************)
(* A model of the GraphQLFormBuilder React component                       *)
(* (src/unnamed/part_001, the most complete variant of                     *)
(* src/src/GraphQLFormBuilder.tsx).                                        *)
(*                                                                         *)
(* JavaScript strings that the program splits, concatenates, encodes or    *)
(* rewrites (argument and field names, dotted paths, raw field values,     *)
(* the operation string) are sequences of one-character strings, so that   *)
(* split ".", JSON.stringify and the key-unquoting regular expression are  *)
(* computed character by character.  Strings that the program only         *)
(* compares (type names, kinds, status values, messages) are TLA+ strings. *)
(***************************************************************************)
EXTENDS Integers, Sequences, FiniteSets, TLC

(***************************************************************************)
(* Bounds of the model.                                                    *)
(***************************************************************************)
\* handleChange events in one behaviour
MaxEdits == 2
\* NON_NULL/LIST wrappers around a named type in the unwrapType harness
MaxWrap == 3
\* arguments of a generated operation in the compiler specification
MaxArgs == 2
\* entries of the value mapping in the submission specification
MaxFilled == 2
\* frames of extractFieldsRecursively on the call stack
MaxDepth == 5

\* JavaScript null / undefined
Null == [t |-> "null"]

(***************************************************************************)
(* The type graph (graphql-js type objects).  A wrapper carries ofType, a  *)
(* named type carries name; an INPUT_OBJECT's fields are looked up by its  *)
(* name in InputObjectFields (GraphQLInputObjectType.getFields()).         *)
(***************************************************************************)
Scalar(nm) == [kind |-> "SCALAR", name |-> nm]
EnumT(nm) == [kind |-> "ENUM", name |-> nm]
InputObj(nm) == [kind |-> "INPUT_OBJECT", name |-> nm]
NonNull(t) == [kind |-> "NON_NULL", ofType |-> t]
ListOf(t) == [kind |-> "LIST", ofType |-> t]

Fld(nm, t) == [name |-> nm, type |-> t]

s_id == <<"i","d">>
s_input == <<"i","n","p","u","t">>
s_title == <<"t","i","t","l","e">>
s_published == <<"p","u","b","l","i","s","h","e","d">>
s_status == <<"s","t","a","t","u","s">>
s_tags == <<"t","a","g","s">>
s_user == <<"u","s","e","r">>
s_name == <<"n","a","m","e">>
s_address == <<"a","d","d","r","e","s","s">>
s_geo == <<"g","e","o">>
s_city == <<"c","i","t","y">>
s_n == <<"n">>
s_updatePost == <<"u","p","d","a","t","e","P","o","s","t">>
s_createPost == <<"c","r","e","a","t","e","P","o","s","t">>
s_setStatus == <<"s","e","t","S","t","a","t","u","s">>
s_addUser == <<"a","d","d","U","s","e","r">>
s_deletePosts == <<"d","e","l","e","t","e","P","o","s","t","s">>
s_filter == <<"f","i","l","t","e","r">>
s_limit == <<"l","i","m","i","t">>

\* getFields() of every input-object type of the schema, in declaration order
InputObjectFields ==
    [ CreatePostInput |->
        << Fld(s_title, NonNull(Scalar("String"))),
           Fld(s_published, Scalar("Boolean")) >>,
      UserInput |->
        << Fld(s_address, NonNull(ListOf(NonNull(InputObj("AddressInput"))))),
           Fld(s_name, Scalar("String")) >>,
      AddressInput |->
        << Fld(s_geo, ListOf(NonNull(Scalar("Int")))),
           Fld(s_city, NonNull(Scalar("String"))) >>,
      PostFilter |->
        << Fld(s_title, Scalar("String")),
           Fld(s_published, Scalar("Boolean")) >> ]

\* getMutationType().getFields() of the introspected schema
MutationFields ==
    << [name |-> s_updatePost,
        args |-> << Fld(s_id, NonNull(Scalar("Int"))) >>],
       [name |-> s_createPost,
        args |-> << Fld(s_input, NonNull(InputObj("CreatePostInput"))) >>],
       [name |-> s_setStatus,
        args |-> << Fld(s_status, NonNull(EnumT("Status"))),
                    Fld(s_tags, NonNull(ListOf(NonNull(Scalar("String"))))) >>],
       [name |-> s_addUser,
        args |-> << Fld(s_user, InputObj("UserInput")),
                    Fld(s_n, Scalar("Float")) >>],
       [name |-> s_deletePosts,
        args |-> << Fld(s_filter, InputObj("PostFilter")),
                    Fld(s_limit, Scalar("Int")) >>] >>

s_DRAFT == <<"D","R","A","F","T">>
s_PUBLISHED == <<"P","U","B","L","I","S","H","E","D">>

\* type.getValues().map(v => v.name) of every enum type of the schema
EnumValues == [ Status |-> << s_DRAFT, s_PUBLISHED >> ]

\* the schema built by buildClientSchema from the introspection result
BuiltSchema == [mutationFields |-> MutationFields]

(***************************************************************************)
(* Type unwrapping and the schema-to-descriptor compiler.                  *)
(***************************************************************************)
\* mutant: strips one wrapper only
unwrapTypeOnce(type) ==
    IF "ofType" \in DOMAIN type THEN type.ofType ELSE type

RECURSIVE unwrapType(_)
unwrapType(type) ==
    IF "ofType" \in DOMAIN type THEN unwrapType(type.ofType) ELSE type

isInputObjectType(type) == type.kind = "INPUT_OBJECT"

isNonNull(type) == type.kind = "NON_NULL"

getFields(inputType) == InputObjectFields[inputType.name]

\* `${prefix}.${field.name}`
fullName(prefix, fieldName) == prefix \o <<".">> \o fieldName

\* a NON_NULL wrapper occurs anywhere in the chain of wrappers of type
RECURSIVE anyNonNull(_)
anyNonNull(type) ==
    \/ isNonNull(type)
    \/ ("ofType" \in DOMAIN type /\ anyNonNull(type.ofType))

\* mutant: required when any wrapper of the declared type is NON_NULL
DescriptorAnyNonNull(nm, type, declared) ==
    [name |-> nm, type |-> type.name, isRequired |-> anyNonNull(declared)]

Descriptor(nm, type, declared) ==
    [name |-> nm, type |-> type.name, isRequired |-> isNonNull(declared)]

RECURSIVE extractFieldsRecursively(_, _)

\* mutant: a nested input object is emitted as one descriptor, not expanded
extractFieldsFlat(prefix, inputType) ==
    LET fields == getFields(inputType)
    IN  [i \in 1..Len(fields) |->
            Descriptor(fullName(prefix, fields[i].name),
                       unwrapType(fields[i].type), fields[i].type)]

\* mutant: the scalar and enum fields of an input object are emitted before
\* the expansions of its nested input objects
extractFieldsLeavesFirst(prefix, inputType) ==
    LET fields == getFields(inputType)
        nestedAt(i) == isInputObjectType(unwrapType(fields[i].type))
        leaves[i \in 0..Len(fields)] ==
            IF i = 0 THEN << >>
            ELSE IF nestedAt(i) THEN leaves[i - 1]
            ELSE Append(leaves[i - 1],
                        Descriptor(fullName(prefix, fields[i].name),
                                   unwrapType(fields[i].type), fields[i].type))
        nested[i \in 0..Len(fields)] ==
            IF i = 0 THEN << >>
            ELSE IF nestedAt(i)
                 THEN nested[i - 1]
                      \o extractFieldsRecursively(fullName(prefix, fields[i].name),
                                                  unwrapType(fields[i].type))
            ELSE nested[i - 1]
    IN  leaves[Len(fields)] \o nested[Len(fields)]

\* mutant: a nested input object gets a descriptor of its own before its fields
extractFieldsWithParents(prefix, inputType) ==
    LET fields == getFields(inputType)
        pushed(field) ==
            LET full == fullName(prefix, field.name)
                unwrapped == unwrapType(field.type)
            IN  IF isInputObjectType(unwrapped)
                THEN << Descriptor(full, unwrapped, field.type) >>
                     \o extractFieldsRecursively(full, unwrapped)
                ELSE << Descriptor(full, unwrapped, field.type) >>
        extracted[i \in 0..Len(fields)] ==
            IF i = 0 THEN << >> ELSE extracted[i - 1] \o pushed(fields[i])
    IN  extracted[Len(fields)]

extractFieldsRecursively(prefix, inputType) ==
    LET fields == getFields(inputType)
        pushed(field) ==
            LET full == fullName(prefix, field.name)
                unwrapped == unwrapType(field.type)
            IN  IF isInputObjectType(unwrapped)
                THEN extractFieldsRecursively(full, unwrapped)
                ELSE << Descriptor(full, unwrapped, field.type) >>
        extracted[i \in 0..Len(fields)] ==
            IF i = 0 THEN << >> ELSE extracted[i - 1] \o pushed(fields[i])
    IN  extracted[Len(fields)]

\* the formFields array that handleMutationSelect builds from mutation.args
compileArgs(args) ==
    LET pushed(arg) ==
            LET baseType == unwrapType(arg.type)
            IN  IF isInputObjectType(baseType)
                THEN extractFieldsRecursively(arg.name, baseType)
                ELSE << Descriptor(arg.name, baseType, arg.type) >>
        formFields[i \in 0..Len(args)] ==
            IF i = 0 THEN << >> ELSE formFields[i - 1] \o pushed(args[i])
    IN  formFields[Len(args)]

\* schema.getMutationType()?.getFields()[mutationName]
lookupMutation(schm, mutationName) ==
    LET hits == {i \in 1..Len(schm.mutationFields) :
                    schm.mutationFields[i].name = mutationName}
    IN  IF hits = {} THEN Null
        ELSE schm.mutationFields[CHOOSE i \in hits : TRUE]


(***************************************************************************)
(* JavaScript values.  A number is m * 10^e with m not divisible by 10     *)
(* (0 is m = 0, e = 0); the model covers numerals short enough to be exact *)
(* as IEEE doubles and below the double's overflow.                        *)
(***************************************************************************)
Str(s) == [t |-> "str", s |-> s]
Bool(b) == [t |-> "bool", b |-> b]
NaN == [t |-> "nan"]
Infinity(neg) == [t |-> "inf", neg |-> neg]
EmptyObject == [t |-> "obj", es |-> << >>]

RECURSIVE Num(_, _)
Num(m, e) ==
    IF m = 0 THEN [t |-> "num", m |-> 0, e |-> 0]
    ELSE IF m % 10 = 0 THEN Num(m \div 10, e + 1)
    ELSE [t |-> "num", m |-> m, e |-> e]

s_true == <<"t","r","u","e">>
s_false == <<"f","a","l","s","e">>
s_null == <<"n","u","l","l">>
s_Infinity == <<"I","n","f","i","n","i","t","y">>

Digits == <<"0","1","2","3","4","5","6","7","8","9">>
IsDigit(c) == \E d \in 1..10 : Digits[d] = c
DigitVal(c) == (CHOOSE d \in 1..10 : Digits[d] = c) - 1
WhiteSpace == {" ", "\n", "\t"}

RECURSIVE TrimStart(_)
TrimStart(s) ==
    IF s # << >> /\ Head(s) \in WhiteSpace THEN TrimStart(Tail(s)) ELSE s

\* the number of consecutive digits of s from position i on
RECURSIVE DigitRun(_, _)
DigitRun(s, i) ==
    IF i <= Len(s) /\ IsDigit(s[i]) THEN 1 + DigitRun(s, i + 1) ELSE 0

\* the value of the digits s[i..j] read in base 10 (0 when the range is empty)
RECURSIVE DigitsValue(_, _, _)
DigitsValue(s, i, j) ==
    IF j < i THEN 0 ELSE 10 * DigitsValue(s, i, j - 1) + DigitVal(s[j])

RECURSIVE NatToString(_)
NatToString(k) ==
    IF k < 10 THEN << Digits[k + 1] >>
    ELSE NatToString(k \div 10) \o << Digits[(k % 10) + 1] >>

Zeros(k) == [i \in 1..k |-> "0"]

\* the exponent suffix of the scientific notation: e+x or e-x
exponentSuffix(x) ==
    <<"e">> \o (IF x < 0 THEN <<"-">> ELSE <<"+">>)
    \o NatToString(IF x < 0 THEN -x ELSE x)

\* the digits ds of a non-zero number whose decimal point follows digit n
formatDigits(sign, ds, n) ==
    IF Len(ds) <= n /\ n <= 21 THEN sign \o ds \o Zeros(n - Len(ds))
    ELSE IF 0 < n /\ n <= 21
         THEN sign \o SubSeq(ds, 1, n) \o <<".">> \o SubSeq(ds, n + 1, Len(ds))
    ELSE IF -6 < n /\ n <= 0 THEN sign \o <<"0", ".">> \o Zeros(-n) \o ds
    ELSE IF Len(ds) = 1 THEN sign \o ds \o exponentSuffix(n - 1)
    ELSE sign \o <<ds[1], ".">> \o SubSeq(ds, 2, Len(ds)) \o exponentSuffix(n - 1)

Abs(m) == IF m < 0 THEN -m ELSE m

\* Number::toString of m * 10^e (ECMA-262 6.1.6.1.20)
NumberToString(m, e) ==
    IF m = 0 THEN <<"0">>
    ELSE formatDigits(IF m < 0 THEN <<"-">> ELSE << >>,
                      NatToString(Abs(m)), Len(NatToString(Abs(m))) + e)

\* ToString(val) as parseInt and parseFloat apply it to their argument
JsToString(val) ==
    CASE val.t = "str" -> val.s
      [] val.t = "bool" -> IF val.b THEN s_true ELSE s_false
      [] val.t = "num" -> NumberToString(val.m, val.e)
      [] val.t = "nan" -> <<"N","a","N">>
      [] val.t = "inf" -> (IF val.neg THEN <<"-">> ELSE << >>) \o s_Infinity
      [] OTHER -> <<"[","o","b","j","e","c","t"," ","O","b","j","e","c","t","]">>

StartsWith(s, p) == Len(s) >= Len(p) /\ SubSeq(s, 1, Len(p)) = p

\* the sign of a numeral and the numeral without it
signOf(s) == IF s # << >> /\ Head(s) = "-" THEN -1 ELSE 1
unsigned(s) == IF s # << >> /\ Head(s) \in {"-", "+"} THEN Tail(s) ELSE s

\* sign times the leading k digits of rest, NaN when there is none
digitsOrNaN(rest, sign, k) ==
    IF k = 0 THEN NaN ELSE Num(sign * DigitsValue(rest, 1, k), 0)

parseIntString(s) == digitsOrNaN(unsigned(s), signOf(s), DigitRun(unsigned(s), 1))

\* parseInt(val, 10)
parseInt(val) == parseIntString(TrimStart(JsToString(val)))

RECURSIVE pow10(_)
pow10(k) == IF k = 0 THEN 1 ELSE 10 * pow10(k - 1)

\* the digits of an exponent from position q on, 0 when there is none
exponentDigits(rest, q, neg) ==
    IF DigitRun(rest, q) = 0 THEN 0
    ELSE (IF neg THEN -1 ELSE 1) * DigitsValue(rest, q, q + DigitRun(rest, q) - 1)

\* the value of the ExponentPart that follows position p of rest, 0 when none
exponentAt(rest, p) ==
    IF p + 1 <= Len(rest) /\ rest[p + 1] \in {"e", "E"}
    THEN IF p + 2 <= Len(rest) /\ rest[p + 2] \in {"-", "+"}
         THEN exponentDigits(rest, p + 3, rest[p + 2] = "-")
         ELSE exponentDigits(rest, p + 2, FALSE)
    ELSE 0

hasDotAt(rest, intLen) == intLen + 1 <= Len(rest) /\ rest[intLen + 1] = "."

fracLenAt(rest, intLen) ==
    IF hasDotAt(rest, intLen) THEN DigitRun(rest, intLen + 2) ELSE 0

\* rest read as intLen digits, an optional dot and fracLen digits, an exponent
parseDecimal(rest, sign, intLen, fracLen) ==
    IF StartsWith(rest, s_Infinity) THEN Infinity(sign < 0)
    ELSE IF intLen + fracLen = 0 THEN NaN
    ELSE Num(sign * (DigitsValue(rest, 1, intLen) * pow10(fracLen)
                     + DigitsValue(rest, intLen + 2, intLen + 1 + fracLen)),
             exponentAt(rest, intLen + (IF hasDotAt(rest, intLen)
                                        THEN 1 + fracLen ELSE 0)) - fracLen)

parseFloatString(s) ==
    parseDecimal(unsigned(s), signOf(s), DigitRun(unsigned(s), 1),
                 fracLenAt(unsigned(s), DigitRun(unsigned(s), 1)))

\* parseFloat(val): the longest prefix that is a StrDecimalLiteral
parseFloat(val) == parseFloatString(TrimStart(JsToString(val)))

\* ToBoolean(val)
Truthy(val) ==
    CASE val.t = "str" -> val.s # << >>
      [] val.t = "bool" -> val.b
      [] val.t = "num" -> val.m # 0
      [] val.t \in {"obj", "inf"} -> TRUE
      [] OTHER -> FALSE

\* mutant: Boolean by truthiness (Boolean(val)) instead of val === "true"
coerceValuesTruthy(val, type) ==
    IF type = "Int" THEN parseInt(val)
    ELSE IF type = "Float" THEN parseFloat(val)
    ELSE IF type = "Boolean" THEN Bool(Truthy(val))
    ELSE val

coerceValues(val, type) ==
    IF type = "Int" THEN parseInt(val)
    ELSE IF type = "Float" THEN parseFloat(val)
    ELSE IF type = "Boolean" THEN Bool(val = Str(s_true))
    ELSE val

(***************************************************************************)
(* JavaScript objects with string keys in insertion order: a sequence of   *)
(* entries [k, v] with pairwise distinct keys (Object.entries order).      *)
(***************************************************************************)
Obj(es) == [t |-> "obj", es |-> es]

HasKey(es, k) == \E i \in 1..Len(es) : es[i].k = k

\* obj[k], Null when there is no such property
GetKey(es, k) ==
    IF HasKey(es, k) THEN es[CHOOSE i \in 1..Len(es) : es[i].k = k].v ELSE Null

\* obj[k] = v: an existing key keeps its position, a new key goes last
SetKey(es, k, v) ==
    IF HasKey(es, k)
    THEN [i \in 1..Len(es) |-> IF es[i].k = k THEN [k |-> k, v |-> v] ELSE es[i]]
    ELSE Append(es, [k |-> k, v |-> v])

\* key.split(".")
RECURSIVE split(_)
split(key) ==
    LET dots == {i \in 1..Len(key) : key[i] = "."}
        d == CHOOSE i \in dots : \A j \in dots : i <= j
    IN  IF dots = {} THEN << key >>
        ELSE << SubSeq(key, 1, d - 1) >> \o split(SubSeq(key, d + 1, Len(key)))

\* a TypeError raised in module (strict) code
Threw == [t |-> "throw"]

\* mutant: current[part] = {} for every intermediate part
RECURSIVE assignPathFresh(_, _, _)
assignPathFresh(current, parts, value) ==
    IF Len(parts) = 1 THEN Obj(SetKey(current.es, Head(parts), value))
    ELSE Obj(SetKey(current.es, Head(parts),
                    assignPathFresh(EmptyObject, Tail(parts), value)))

\* the parts.forEach of buildNestedObject on the node `current`
RECURSIVE assignPath(_, _, _)
assignPath(current, parts, value) ==
    LET part == Head(parts)
        old == GetKey(current.es, part)
        child == IF Truthy(old) THEN old ELSE EmptyObject
        sub == assignPath(child, Tail(parts), value)
    IN  IF current.t # "obj" THEN Threw
        ELSE IF Len(parts) = 1 THEN Obj(SetKey(current.es, part, value))
        ELSE IF sub = Threw THEN Threw
        ELSE Obj(SetKey(current.es, part, sub))

\* mutant: no splitting, result[key] = value
buildNestedObjectFlat(entries) ==
    LET result[i \in 0..Len(entries)] ==
            IF i = 0 THEN EmptyObject
            ELSE Obj(SetKey(result[i - 1].es, entries[i].k, entries[i].v))
    IN  result[Len(entries)]

buildNestedObject(entries) ==
    LET result[i \in 0..Len(entries)] ==
            IF i = 0 THEN EmptyObject
            ELSE IF result[i - 1] = Threw THEN Threw
            ELSE assignPath(result[i - 1], split(entries[i].k), entries[i].v)
    IN  result[Len(entries)]

(***************************************************************************)
(* JSON.stringify and the key-unquoting rewrite.                           *)
(***************************************************************************)
RECURSIVE Concat(_)
Concat(ss) == IF ss = << >> THEN << >> ELSE Head(ss) \o Concat(Tail(ss))

RECURSIVE Join(_, _)
Join(ss, sep) ==
    IF ss = << >> THEN << >>
    ELSE IF Len(ss) = 1 THEN ss[1]
    ELSE ss[1] \o sep \o Join(Tail(ss), sep)

\* QuoteJSONString
JsonQuote(s) ==
    LET esc(c) ==
            CASE c = "\"" -> <<"\\", "\"">>
              [] c = "\\" -> <<"\\", "\\">>
              [] c = "\n" -> <<"\\", "n">>
              [] c = "\t" -> <<"\\", "t">>
              [] OTHER -> << c >>
    IN  <<"\"">> \o Concat([i \in 1..Len(s) |-> esc(s[i])]) \o <<"\"">>

RECURSIVE JsonStringify(_)
JsonStringify(val) ==
    CASE val.t = "str" -> JsonQuote(val.s)
      [] val.t = "bool" -> IF val.b THEN s_true ELSE s_false
      [] val.t = "num" -> NumberToString(val.m, val.e)
      [] val.t = "obj" ->
            <<"{">>
            \o Join([i \in 1..Len(val.es) |->
                        JsonQuote(val.es[i].k) \o <<":">>
                        \o JsonStringify(val.es[i].v)], <<",">>)
            \o <<"}">>
      [] OTHER -> s_null

\* the position of the first double quote of s after position i, 0 when none
nextQuote(s, i) ==
    IF \E j \in (i + 1)..Len(s) : s[j] = "\""
    THEN CHOOSE j \in (i + 1)..Len(s) :
            s[j] = "\"" /\ \A r \in (i + 1)..(j - 1) : s[r] # "\""
    ELSE 0

\* /"([^()"]+)":/ matches at position i of s, its closing quote being at j
keyMatch(s, i, j) ==
    /\ s[i] = "\""
    /\ j > i + 1
    /\ \A x \in (i + 1)..(j - 1) : s[x] \notin {"(", ")"}
    /\ j + 1 <= Len(s)
    /\ s[j + 1] = ":"

\* s.replace(/"([^()"]+)":/g, "$1:"), scanning s from position i
RECURSIVE unquoteFrom(_, _)
RECURSIVE unquoteAt(_, _, _)
unquoteAt(s, i, j) ==
    IF keyMatch(s, i, j)
    THEN SubSeq(s, i + 1, j - 1) \o <<":">> \o unquoteFrom(s, j + 2)
    ELSE << s[i] >> \o unquoteFrom(s, i + 1)

unquoteFrom(s, i) ==
    IF i > Len(s) THEN << >> ELSE unquoteAt(s, i, nextQuote(s, i))

unquoteKeys(s) == unquoteFrom(s, 1)

\* mutant: the keys keep the quotes of JSON.stringify
argStringsQuotedKeys(nested) ==
    Join([i \in 1..Len(nested.es) |->
            nested.es[i].k \o <<":", " ">>
            \o JsonStringify(nested.es[i].v)], <<",", " ">>)

\* the argStrings of handleSubmit
argStrings(nested) ==
    Join([i \in 1..Len(nested.es) |->
            nested.es[i].k \o <<":", " ">>
            \o unquoteKeys(JsonStringify(nested.es[i].v))], <<",", " ">>)

Spaces(k) == [i \in 1..k |-> " "]

\* the template literal of handleSubmit
mutationString(selected, args) ==
    <<"\n">> \o Spaces(6) \o <<"m","u","t","a","t","i","o","n"," ","{","\n">>
    \o Spaces(8) \o selected \o <<"(">> \o args \o <<")"," ","{","\n">>
    \o Spaces(10) \o <<"i","d","\n">>
    \o Spaces(8) \o <<"}","\n">>
    \o Spaces(6) \o <<"}","\n">>
    \o Spaces(4)

(***************************************************************************)
(* The component's state (the useState cells), the fetches in flight and   *)
(* the harness of the pure-function specifications.                        *)
(***************************************************************************)
VARIABLES
    schema,            \* Null until the introspection result is built
    mutations,         \* the option names of the operation select
    selectedMutation,  \* Null or Str(name)
    inputFields,       \* the descriptor sequence
    formData,          \* entries [k |-> path, v |-> raw value], insertion order
    errors,            \* path -> message
    isSubmitting,
    submitStatus,      \* "", "success" or "error"
    errorMessages,
    requests,          \* operation strings posted and not yet settled
    lastEvent,         \* the handler that ran last
    edits,             \* handleChange events so far
    call               \* pure-function harness: the call and its result

vars == << schema, mutations, selectedMutation, inputFields, formData, errors,
           isSubmitting, submitStatus, errorMessages, requests, lastEvent,
           edits, call >>

formVars == << schema, mutations, selectedMutation, inputFields, formData,
               errors, isSubmitting, submitStatus, errorMessages, requests,
               lastEvent, edits >>

s_Hello == <<"H","e","l","l","o">>

\* the raw strings a field edit can deliver (e.target.value)
RawValues == { << >>, <<"4","2">>, s_Hello }

\* the error lists a GraphQL response can carry (json.errors mapped to message)
ErrorLists == { <<"bad input">>, <<"bad input", "not allowed">> }

RequiredMessage == "Campo obrigatorio"
NetworkMessage == "Erro de rede ou desconhecido"

NoCall == [fn |-> "none"]

InitForm ==
    /\ schema = Null
    /\ mutations = << >>
    /\ selectedMutation = Null
    /\ inputFields = << >>
    /\ formData = << >>
    /\ errors = << >>
    /\ isSubmitting = FALSE
    /\ submitStatus = ""
    /\ errorMessages = << >>
    /\ requests = << >>
    /\ lastEvent = "mount"
    /\ edits = 0

Init == InitForm /\ call = NoCall

\* Object.keys(mutationType.getFields())
mutationNames(schm) ==
    [i \in 1..Len(schm.mutationFields) |-> schm.mutationFields[i].name]

\* the useEffect on mount: the introspection result arrives
fetchSchema ==
    /\ schema = Null
    /\ schema' = BuiltSchema
    /\ mutations' = mutationNames(BuiltSchema)
    /\ lastEvent' = "fetchSchema"
    /\ UNCHANGED << selectedMutation, inputFields, formData, errors,
                    isSubmitting, submitStatus, errorMessages, requests,
                    edits, call >>

\* the values of the operation select: the placeholder and every mutation
SelectOptions == { << >> } \cup { mutations[i] : i \in 1..Len(mutations) }

\* mutant: setFormData({}) is missing
handleMutationSelectNoReset(mutationName) ==
    LET mutation == IF schema = Null THEN Null
                    ELSE lookupMutation(schema, mutationName)
    IN  /\ lastEvent' = "handleMutationSelect"
        /\ IF schema = Null \/ mutation = Null
           THEN UNCHANGED << inputFields, selectedMutation, formData, errors,
                             submitStatus, errorMessages >>
           ELSE /\ inputFields' = compileArgs(mutation.args)
                /\ selectedMutation' = Str(mutationName)
                /\ errors' = << >>
                /\ submitStatus' = ""
                /\ errorMessages' = << >>
                /\ UNCHANGED formData
        /\ UNCHANGED << schema, mutations, isSubmitting, requests, edits, call >>

\* mutant: the new descriptors are appended, the values and errors are kept
handleMutationSelectKeep(mutationName) ==
    LET mutation == IF schema = Null THEN Null
                    ELSE lookupMutation(schema, mutationName)
    IN  /\ lastEvent' = "handleMutationSelect"
        /\ IF schema = Null \/ mutation = Null
           THEN UNCHANGED << inputFields, selectedMutation, formData, errors,
                             submitStatus, errorMessages >>
           ELSE /\ inputFields' = inputFields \o compileArgs(mutation.args)
                /\ selectedMutation' = Str(mutationName)
                /\ submitStatus' = ""
                /\ errorMessages' = << >>
                /\ UNCHANGED << formData, errors >>
        /\ UNCHANGED << schema, mutations, isSubmitting, requests, edits, call >>

handleMutationSelect(mutationName) ==
    LET mutation == IF schema = Null THEN Null
                    ELSE lookupMutation(schema, mutationName)
    IN  /\ lastEvent' = "handleMutationSelect"
        /\ IF schema = Null \/ mutation = Null
           THEN UNCHANGED << inputFields, selectedMutation, formData, errors,
                             submitStatus, errorMessages >>
           ELSE /\ inputFields' = compileArgs(mutation.args)
                /\ selectedMutation' = Str(mutationName)
                /\ formData' = << >>
                /\ errors' = << >>
                /\ submitStatus' = ""
                /\ errorMessages' = << >>
        /\ UNCHANGED << schema, mutations, isSubmitting, requests, edits, call >>

\* { ...prev, [name]: value }
spread(prev, nm, value) == SetKey(prev, nm, value)

\* { ...prev, [name]: "" } on the errors mapping
clearError(prev, nm) ==
    [p \in DOMAIN prev \cup {nm} |-> IF p = nm THEN "" ELSE prev[p]]

handleChange(nm, value) ==
    /\ edits < MaxEdits
    /\ edits' = edits + 1
    /\ formData' = spread(formData, nm, Str(value))
    /\ errors' = clearError(errors, nm)
    /\ lastEvent' = "handleChange"
    /\ UNCHANGED << schema, mutations, selectedMutation, inputFields,
                    isSubmitting, submitStatus, errorMessages, requests, call >>

\* mutant: the value === "" test is missing
validateFormUndefinedOnly(fields, data) ==
    LET missing(field) == field.isRequired /\ GetKey(data, field.name) = Null
        newErrors[i \in 0..Len(fields)] ==
            IF i = 0 THEN << >>
            ELSE IF missing(fields[i])
                 THEN [p \in DOMAIN newErrors[i - 1] \cup {fields[i].name} |->
                          IF p = fields[i].name THEN RequiredMessage
                          ELSE newErrors[i - 1][p]]
            ELSE newErrors[i - 1]
    IN  newErrors[Len(fields)]

\* mutant: a value that does not parse as a number is an error as well
validateFormTyped(fields, data) ==
    LET missing(field) ==
            LET value == GetKey(data, field.name)
            IN  \/ field.isRequired /\ (value = Null \/ value = Str(<< >>))
                \/ /\ value # Null
                   /\ field.type \in {"Int", "Float"}
                   /\ coerceValues(value, field.type) = NaN
        newErrors[i \in 0..Len(fields)] ==
            IF i = 0 THEN << >>
            ELSE IF missing(fields[i])
                 THEN [p \in DOMAIN newErrors[i - 1] \cup {fields[i].name} |->
                          IF p = fields[i].name THEN RequiredMessage
                          ELSE newErrors[i - 1][p]]
            ELSE newErrors[i - 1]
    IN  newErrors[Len(fields)]

\* the newErrors object of validateForm
validateForm(fields, data) ==
    LET missing(field) ==
            LET value == GetKey(data, field.name)
            IN  field.isRequired /\ (value = Null \/ value = Str(<< >>))
        newErrors[i \in 0..Len(fields)] ==
            IF i = 0 THEN << >>
            ELSE IF missing(fields[i])
                 THEN [p \in DOMAIN newErrors[i - 1] \cup {fields[i].name} |->
                          IF p = fields[i].name THEN RequiredMessage
                          ELSE newErrors[i - 1][p]]
            ELSE newErrors[i - 1]
    IN  newErrors[Len(fields)]

\* the undefined that stands where a type name is expected
UndefinedType == "undefined"

\* inputFields.find((f) => f.name === key)?.type
fieldType(fields, key) ==
    LET hits == {i \in 1..Len(fields) : fields[i].name = key}
    IN  IF hits = {} THEN UndefinedType
        ELSE fields[CHOOSE i \in hits : \A j \in hits : i <= j].type

\* mutant: the raw values are nested without coercion
coerceFormDataNone(fields, data) == data

\* mutant: an entry whose value is "" is dropped like a never edited one
coerceFormDataNonEmpty(fields, data) ==
    LET kept[i \in 0..Len(data)] ==
            IF i = 0 THEN << >>
            ELSE IF data[i].v = Str(<< >>) THEN kept[i - 1]
            ELSE Append(kept[i - 1],
                        [k |-> data[i].k,
                         v |-> coerceValues(data[i].v,
                                  IF \E j \in 1..Len(fields) : fields[j].name = data[i].k
                                  THEN fields[CHOOSE j \in 1..Len(fields) :
                                                 fields[j].name = data[i].k].type
                                  ELSE "undefined")])
    IN  kept[Len(data)]

\* mutant: a value for every descriptor, undefined when never edited
coerceFormDataAllFields(fields, data) ==
    [i \in 1..Len(fields) |->
        [k |-> fields[i].name,
         v |-> IF HasKey(data, fields[i].name)
               THEN coerceValues(GetKey(data, fields[i].name), fields[i].type)
               ELSE Null]]

\* the coercedFormData entries of handleSubmit
coerceFormData(fields, data) ==
    [i \in 1..Len(data) |->
        [k |-> data[i].k, v |-> coerceValues(data[i].v, fieldType(fields, data[i].k))]]

\* the operation string handleSubmit builds, Threw when buildNestedObject throws
buildMutation(selected, fields, data) ==
    LET nested == buildNestedObject(coerceFormData(fields, data))
    IN  IF nested = Threw THEN Threw
        ELSE Str(mutationString(selected.s, argStrings(nested)))

\* mutant: the submit button is never disabled
canSubmitAlways == Len(inputFields) > 0

\* the form is rendered and its submit button is enabled
canSubmit == Len(inputFields) > 0 /\ ~isSubmitting

\* mutant: the result of validateForm is ignored
handleSubmitUnchecked ==
    LET newErrors == validateForm(inputFields, formData)
        mutation == buildMutation(selectedMutation, inputFields, formData)
    IN  /\ canSubmit
        /\ lastEvent' = "handleSubmit"
        /\ IF ~Truthy(selectedMutation) \/ mutation = Threw
           THEN UNCHANGED << errors, isSubmitting, submitStatus, errorMessages,
                             requests >>
           ELSE /\ errors' = newErrors
                /\ isSubmitting' = TRUE
                /\ submitStatus' = ""
                /\ errorMessages' = << >>
                /\ requests' = Append(requests, mutation)
        /\ UNCHANGED << schema, mutations, selectedMutation, inputFields,
                        formData, edits, call >>

handleSubmit ==
    LET newErrors == validateForm(inputFields, formData)
        mutation == buildMutation(selectedMutation, inputFields, formData)
    IN  /\ canSubmit
        /\ lastEvent' = "handleSubmit"
        /\ IF ~Truthy(selectedMutation)
           THEN UNCHANGED << errors, isSubmitting, submitStatus, errorMessages,
                             requests >>
           ELSE IF newErrors # << >> \/ mutation = Threw
           THEN /\ errors' = newErrors
                /\ UNCHANGED << isSubmitting, submitStatus, errorMessages,
                                requests >>
           ELSE /\ errors' = newErrors
                /\ isSubmitting' = TRUE
                /\ submitStatus' = ""
                /\ errorMessages' = << >>
                /\ requests' = Append(requests, mutation)
        /\ UNCHANGED << schema, mutations, selectedMutation, inputFields,
                        formData, edits, call >>

Remove(seq, i) == SubSeq(seq, 1, i - 1) \o SubSeq(seq, i + 1, Len(seq))

\* the awaited fetch settles with a response that carries no errors
responseSuccess(i) ==
    /\ requests' = Remove(requests, i)
    /\ submitStatus' = "success"
    /\ isSubmitting' = FALSE
    /\ lastEvent' = "response"
    /\ UNCHANGED << schema, mutations, selectedMutation, inputFields,
                    formData, errors, errorMessages, edits, call >>

\* mutant: setIsSubmitting(false) is missing on this path
responseErrorsStuck(i, messages) ==
    /\ requests' = Remove(requests, i)
    /\ errorMessages' = messages
    /\ submitStatus' = "error"
    /\ lastEvent' = "response"
    /\ UNCHANGED << schema, mutations, selectedMutation, inputFields,
                    formData, errors, isSubmitting, edits, call >>

\* the awaited fetch settles with a non-empty json.errors
responseErrors(i, messages) ==
    /\ requests' = Remove(requests, i)
    /\ errorMessages' = messages
    /\ submitStatus' = "error"
    /\ isSubmitting' = FALSE
    /\ lastEvent' = "response"
    /\ UNCHANGED << schema, mutations, selectedMutation, inputFields,
                    formData, errors, edits, call >>

\* mutant: the catch block sets the status only
responseFailureNoMessage(i) ==
    /\ requests' = Remove(requests, i)
    /\ submitStatus' = "error"
    /\ isSubmitting' = FALSE
    /\ lastEvent' = "response"
    /\ UNCHANGED << schema, mutations, selectedMutation, inputFields,
                    formData, errors, errorMessages, edits, call >>

\* fetch or res.json() rejects: the catch block
responseFailure(i) ==
    /\ requests' = Remove(requests, i)
    /\ errorMessages' = << NetworkMessage >>
    /\ submitStatus' = "error"
    /\ isSubmitting' = FALSE
    /\ lastEvent' = "response"
    /\ UNCHANGED << schema, mutations, selectedMutation, inputFields,
                    formData, errors, edits, call >>

Select == \E mutationName \in SelectOptions : handleMutationSelect(mutationName)

Change ==
    \E i \in 1..Len(inputFields), value \in RawValues :
        handleChange(inputFields[i].name, value)

Success == \E i \in 1..Len(requests) : responseSuccess(i)

Errors == \E i \in 1..Len(requests), m \in ErrorLists : responseErrors(i, m)

Failure == \E i \in 1..Len(requests) : responseFailure(i)

Next ==
    \/ fetchSchema
    \/ Select
    \/ Change
    \/ handleSubmit
    \/ Success
    \/ Errors
    \/ Failure

Spec == Init /\ [][Next]_vars

\* every execution request settles: the awaited fetch resolves or rejects
Settle == Success \/ Errors \/ Failure

SpecLive == Spec /\ WF_vars(Settle)

(***************************************************************************)
(* Specifications of the pure functions: Init draws the arguments of one   *)
(* call from a bounded set, the action applies the function.               *)
(***************************************************************************)
NamedTypes ==
    { Scalar("Int"), Scalar("String"), EnumT("Status"), InputObj("UserInput") }

\* the named types under at most k NON_NULL/LIST wrappers, in any order
RECURSIVE WrappedTypes(_)
WrappedTypes(k) ==
    IF k = 0 THEN NamedTypes
    ELSE WrappedTypes(k - 1)
         \cup { NonNull(t) : t \in WrappedTypes(k - 1) }
         \cup { ListOf(t) : t \in WrappedTypes(k - 1) }

InitUnwrap ==
    /\ InitForm
    /\ call \in { [fn |-> "unwrapType", arg |-> t, done |-> FALSE, ret |-> Null] :
                    t \in WrappedTypes(MaxWrap) }

callUnwrapType ==
    /\ call.fn = "unwrapType"
    /\ ~call.done
    /\ call' = [call EXCEPT !.done = TRUE, !.ret = unwrapType(call.arg)]
    /\ UNCHANGED formVars

SpecUnwrap == InitUnwrap /\ [][callUnwrapType]_vars

s_maybe == <<"m","a","y","b","e">>

\* the raw values handed to coerceValues (val: any)
CoerceInputs ==
    { Str(<< >>), Str(s_true), Str(s_false), Str(s_maybe), Str(s_Hello),
      Str(<<"T","r","u","e">>), Str(<<" ","t","r","u","e">>),
      Str(<<"4","2">>), Str(<<"-","0","7">>), Str(<<"+","3">>), Str(<<"0">>),
      Str(<<"1","2","0","0">>), Str(<<"4",".","5">>), Str(<<"1","e","3">>),
      Str(<<"1","2","a">>), Bool(TRUE), Bool(FALSE) }

LeafTypeNames ==
    { "Int", "Float", "Boolean", "String", "ID", "Status", UndefinedType }

InitCoerce ==
    /\ InitForm
    /\ call \in { [fn |-> "coerceValues", arg |-> v, type |-> ty,
                   done |-> FALSE, ret |-> Null] :
                    v \in CoerceInputs, ty \in LeafTypeNames }

callCoerceValues ==
    /\ call.fn = "coerceValues"
    /\ ~call.done
    /\ call' = [call EXCEPT !.done = TRUE,
                            !.ret = coerceValues(call.arg, call.type)]
    /\ UNCHANGED formVars

SpecCoerce == InitCoerce /\ [][callCoerceValues]_vars

(***************************************************************************)
(* The compiler on generated operations: Init is the state after           *)
(* fetchSchema for a schema with one operation whose arguments are drawn   *)
(* from ArgTypes, or for BuiltSchema; the only handler is the selection.   *)
(***************************************************************************)
ArgTypes ==
    { NonNull(Scalar("Int")),
      Scalar("Float"),
      ListOf(NonNull(Scalar("String"))),
      NonNull(ListOf(EnumT("Status"))),
      NonNull(InputObj("CreatePostInput")),
      InputObj("UserInput"),
      NonNull(ListOf(NonNull(InputObj("AddressInput")))),
      ListOf(ListOf(InputObj("UserInput"))) }

s_op == <<"o","p">>

\* the name of the i-th argument of a generated operation: a1, a2, ...
ArgName(i) == <<"a">> \o NatToString(i)

ArgLists ==
    UNION { { [i \in 1..k |-> Fld(ArgName(i), ts[i])] : ts \in [1..k -> ArgTypes] } :
            k \in 1..MaxArgs }

GeneratedSchemas ==
    { [mutationFields |-> << [name |-> s_op, args |-> a] >>] : a \in ArgLists }

InitCompile ==
    /\ schema \in GeneratedSchemas \cup { BuiltSchema }
    /\ mutations = mutationNames(schema)
    /\ selectedMutation = Null
    /\ inputFields = << >>
    /\ formData = << >>
    /\ errors = << >>
    /\ isSubmitting = FALSE
    /\ submitStatus = ""
    /\ errorMessages = << >>
    /\ requests = << >>
    /\ lastEvent = "fetchSchema"
    /\ edits = 0
    /\ call = NoCall

SpecCompile == InitCompile /\ [][Select]_vars

(***************************************************************************)
(* Submission from any form state: Init is a state the component is in     *)
(* after fetchSchema, the selection of an operation of BuiltSchema and      *)
(* edits of at most MaxFilled distinct fields; the only handler is          *)
(* handleSubmit.                                                            *)
(***************************************************************************)
\* the largest value of the GraphQL Int type
s_MaxInt == <<"2","1","4","7","4","8","3","6","4","7">>

\* a text with a double quote followed by a colon
s_QuoteColon == <<"a","\"",":">>

SubmitValues ==
    RawValues \cup { s_true, <<"-","0","7">>, s_MaxInt, s_PUBLISHED, s_QuoteColon }

\* a value mapping over the descriptors `fields`: the fields ix[1], ..,
\* ix[k] edited in this order to the values vs[1], .., vs[k]
FormDataOf(fields, k, ix, vs) ==
    [i \in 1..k |-> [k |-> fields[ix[i]].name, v |-> Str(vs[i])]]

Injective(f) == \A a \in DOMAIN f, b \in DOMAIN f : a # b => f[a] # f[b]

InitSubmit ==
    \E m \in 1..Len(MutationFields), k \in 0..MaxFilled :
        \E ix \in [1..k -> 1..Len(compileArgs(MutationFields[m].args))],
           vs \in [1..k -> SubmitValues] :
            /\ Injective(ix)
            /\ schema = BuiltSchema
            /\ mutations = mutationNames(BuiltSchema)
            /\ selectedMutation = Str(MutationFields[m].name)
            /\ inputFields = compileArgs(MutationFields[m].args)
            /\ formData = FormDataOf(compileArgs(MutationFields[m].args), k, ix, vs)
            /\ errors = [p \in { compileArgs(MutationFields[m].args)[ix[i]].name :
                                   i \in 1..k } |-> ""]
            /\ isSubmitting = FALSE
            /\ submitStatus = ""
            /\ errorMessages = << >>
            /\ requests = << >>
            /\ lastEvent = IF k = 0 THEN "handleMutationSelect" ELSE "handleChange"
            /\ edits = k
            /\ call = NoCall

SpecSubmit == InitSubmit /\ [][handleSubmit]_vars

(***************************************************************************)
(* buildNestedObject on a value for every leaf path of an operation.       *)
(***************************************************************************)
RoundTripValues == { Str(<< >>), Str(s_Hello), Num(42, 0), Bool(FALSE) }

Reversed(seq) == [i \in 1..Len(seq) |-> seq[Len(seq) + 1 - i]]

Orders(n) == { f \in [1..n -> 1..n] : \A a \in 1..n, b \in 1..n : a # b => f[a] # f[b] }

\* a value for every descriptor, the entries in every order
FullAssignments(fields) ==
    { [i \in 1..Len(fields) |-> [k |-> fields[order[i]].name, v |-> vs[order[i]]]] :
        order \in Orders(Len(fields)),
        vs \in [1..Len(fields) -> RoundTripValues] }

InitRoundTrip ==
    /\ InitForm
    /\ \E m \in 1..Len(MutationFields) :
          call \in { [fn |-> "buildNestedObject", args |-> MutationFields[m].args,
                      entries |-> e, done |-> FALSE, ret |-> Null] :
                       e \in FullAssignments(compileArgs(MutationFields[m].args)) }

callBuildNestedObject ==
    /\ call.fn = "buildNestedObject"
    /\ ~call.done
    /\ call' = [call EXCEPT !.done = TRUE, !.ret = buildNestedObject(call.entries)]
    /\ UNCHANGED formVars

SpecRoundTrip == InitRoundTrip /\ [][callBuildNestedObject]_vars

(***************************************************************************)
(* extractFieldsRecursively call by call.  The call stack is a sequence of *)
(* frames, the last one running: prefix and inputType are the arguments,   *)
(* index is the position of forEach in Object.values(fields); the          *)
(* `extracted` arrays of the frames are kept as one list, because a        *)
(* returned array is pushed whole onto the caller's.  The input-object     *)
(* types are those of the table call.types, which may refer to each other  *)
(* in a cycle.  A frame is pushed only while the stack has fewer than      *)
(* MaxDepth frames.                                                        *)
(***************************************************************************)
s_a == <<"a">>
s_x == <<"x">>
s_y == <<"y">>

CycleTypeNames == {"A", "B", "C"}

\* what the second field of a generated input-object type can be
SecondFieldTypes ==
    { Scalar("String"), InputObj("A"), NonNull(InputObj("B")),
      ListOf(NonNull(InputObj("C"))) }

\* input-object types {x: Int!, y: <second>}, every choice of the second fields
GeneratedTypeTables ==
    { [n \in CycleTypeNames |->
          << Fld(s_x, NonNull(Scalar("Int"))), Fld(s_y, second[n]) >>] :
        second \in [CycleTypeNames -> SecondFieldTypes] }

TypeTables == GeneratedTypeTables \cup { InputObjectFields }

Frame(prefix, typeName) == [prefix |-> prefix, inputType |-> typeName, index |-> 1]

InitRecursion ==
    /\ InitForm
    /\ \E types \in TypeTables :
          \E root \in DOMAIN types :
              call = [fn |-> "extractFieldsRecursively", types |-> types,
                      root |-> root, stack |-> << Frame(s_a, root) >>,
                      extracted |-> << >>, done |-> FALSE]

Running == call.fn = "extractFieldsRecursively" /\ ~call.done /\ call.stack # << >>

TopFrame == call.stack[Len(call.stack)]

TopFields == call.types[TopFrame.inputType]

\* the stack with the index of the running frame moved to the next field
Advanced ==
    [call.stack EXCEPT ![Len(call.stack)].index = TopFrame.index + 1]

\* forEach reaches a field whose unwrapped type is a scalar or an enum
pushDescriptor ==
    /\ Running
    /\ TopFrame.index <= Len(TopFields)
    /\ LET field == TopFields[TopFrame.index]
       IN  /\ ~isInputObjectType(unwrapType(field.type))
           /\ call' = [call EXCEPT
                         !.stack = Advanced,
                         !.extracted =
                            Append(@, Descriptor(fullName(TopFrame.prefix, field.name),
                                                 unwrapType(field.type), field.type))]
    /\ UNCHANGED formVars

\* mutant: an input-object type that is already on the stack is not entered
recurseOncePerType ==
    /\ Running
    /\ TopFrame.index <= Len(TopFields)
    /\ Len(call.stack) < MaxDepth
    /\ LET field == TopFields[TopFrame.index]
           entered == { call.stack[i].inputType : i \in 1..Len(call.stack) }
       IN  /\ isInputObjectType(unwrapType(field.type))
           /\ call' = [call EXCEPT
                         !.stack =
                            IF unwrapType(field.type).name \in entered THEN Advanced
                            ELSE Append(Advanced,
                                        Frame(fullName(TopFrame.prefix, field.name),
                                              unwrapType(field.type).name))]
    /\ UNCHANGED formVars

\* forEach reaches a field whose unwrapped type is an input object: the call
\* extractFieldsRecursively(fullName, unwrapped)
recurse ==
    /\ Running
    /\ TopFrame.index <= Len(TopFields)
    /\ Len(call.stack) < MaxDepth
    /\ LET field == TopFields[TopFrame.index]
       IN  /\ isInputObjectType(unwrapType(field.type))
           /\ call' = [call EXCEPT
                         !.stack = Append(Advanced,
                                          Frame(fullName(TopFrame.prefix, field.name),
                                                unwrapType(field.type).name))]
    /\ UNCHANGED formVars

\* forEach is over: return extracted
returnExtracted ==
    /\ Running
    /\ TopFrame.index > Len(TopFields)
    /\ call' = [call EXCEPT !.stack = SubSeq(@, 1, Len(@) - 1),
                            !.done = (Len(call.stack) = 1)]
    /\ UNCHANGED formVars

NextRecursion == pushDescriptor \/ recurse \/ returnExtracted

SpecRecursion == InitRecursion /\ [][NextRecursion]_vars

\* a call that can take a step takes it
SpecRecursionLive == SpecRecursion /\ WF_vars(NextRecursion)

(***************************************************************************)
(* Claims.                                                                 *)
(***************************************************************************)
WrapperKinds == {"NON_NULL", "LIST"}

\* r ends the chain of ofType links that starts at t: every type before it
\* on the chain is a wrapper and r is none
InnermostOf(t, r) ==
    \E n \in 0..MaxWrap :
        LET c[k \in 0..n] ==
                IF k = 0 THEN t
                ELSE IF c[k - 1].kind \in WrapperKinds THEN c[k - 1].ofType
                ELSE c[k - 1]
        IN  /\ \A k \in 0..(n - 1) : c[k].kind \in WrapperKinds
            /\ c[n] = r
            /\ r.kind \notin WrapperKinds

\* C5: unwrapType of a type under any chain of NON_NULL/LIST wrappers is the
\* innermost type that is no wrapper, and a type that is no wrapper is
\* returned unchanged.
C5_UnwrapInnermost ==
    (call.fn = "unwrapType" /\ call.done) =>
        /\ InnermostOf(call.arg, call.ret)
        /\ (call.arg.kind \notin WrapperKinds => call.ret = call.arg)

C5_Witness ==
    /\ call.fn = "unwrapType"
    /\ call.done
    /\ call.arg = NonNull(ListOf(NonNull(Scalar("Int"))))
    /\ call.ret = Scalar("Int")

\* C8: with leaf type "Boolean", coerceValues of a string is the boolean
\* true for the string "true" and the boolean false for every other string.
C8_BooleanOfString ==
    (call.fn = "coerceValues" /\ call.done /\ call.type = "Boolean"
        /\ call.arg.t = "str") =>
        /\ call.ret.t = "bool"
        /\ call.ret.b <=> (call.arg.s = <<"t","r","u","e">>)

C8_Witness ==
    /\ call.fn = "coerceValues"
    /\ call.done
    /\ call.type = "Boolean"
    /\ call.arg = Str(s_maybe)
    /\ call.ret = Bool(FALSE)

RECURSIVE NamedTypeOf(_)
NamedTypeOf(t) == IF t.kind \in WrapperKinds THEN NamedTypeOf(t.ofType) ELSE t

\* the field-name sequences that lead from a list of arguments or fields,
\* through input-object fields only, to a scalar or enum
RECURSIVE LeafSegments(_)
LeafSegments(fields) ==
    UNION { IF NamedTypeOf(fields[i].type).kind = "INPUT_OBJECT"
            THEN { << fields[i].name >> \o r :
                     r \in LeafSegments(
                             InputObjectFields[NamedTypeOf(fields[i].type).name]) }
            ELSE { << fields[i].name >> } : i \in 1..Len(fields) }

DottedPath(segs) == Join(segs, <<".">>)

\* the arguments the schema declares for the selected operation
SelectedArgs ==
    (CHOOSE m \in { schema.mutationFields[i] :
                        i \in 1..Len(schema.mutationFields) } :
        m.name = selectedMutation.s).args

Selected == selectedMutation # Null

FieldIndex(fields, nm) == CHOOSE i \in 1..Len(fields) : fields[i].name = nm

\* the declared type of the argument or field that segs leads to
RECURSIVE DeclaredTypeAt(_, _)
DeclaredTypeAt(fields, segs) ==
    IF Len(segs) = 1 THEN fields[FieldIndex(fields, segs[1])].type
    ELSE DeclaredTypeAt(
            InputObjectFields[
                NamedTypeOf(fields[FieldIndex(fields, segs[1])].type).name],
            Tail(segs))

\* the declaration positions of the segments of segs, outermost first
RECURSIVE IndexVector(_, _)
IndexVector(fields, segs) ==
    IF Len(segs) = 1 THEN << FieldIndex(fields, segs[1]) >>
    ELSE << FieldIndex(fields, segs[1]) >>
         \o IndexVector(
              InputObjectFields[
                  NamedTypeOf(fields[FieldIndex(fields, segs[1])].type).name],
              Tail(segs))

LexLess(a, b) ==
    \E k \in 1..Len(a) :
        /\ k <= Len(b)
        /\ a[k] < b[k]
        /\ \A j \in 1..(k - 1) : a[j] = b[j]

Prefix(a, n) == SubSeq(a, 1, n)

\* C1: the compiled descriptors are exactly the scalar-or-enum leaves reachable
\* from the operation's arguments through input-object fields, one descriptor
\* per leaf; a descriptor's dotted path is the argument name followed by the
\* input-object field names on the way to the leaf, wrappers adding nothing.
C1_OneDescriptorPerLeaf ==
    Selected =>
        LET leaves == LeafSegments(SelectedArgs)
            at(segs) == { i \in 1..Len(inputFields) :
                            inputFields[i].name = DottedPath(segs) }
        IN  /\ Len(inputFields) = Cardinality(leaves)
            /\ \A segs \in leaves : Cardinality(at(segs)) = 1
            /\ \A i \in 1..Len(inputFields) :
                   \E segs \in leaves : inputFields[i].name = DottedPath(segs)

C1_Witness ==
    /\ selectedMutation = Str(s_addUser)
    /\ Len(inputFields) = 4
    /\ inputFields[1].name = DottedPath(<< s_user, s_address, s_geo >>)
    /\ inputFields[4].name = s_n

\* C3: the descriptors are in pre-order: in declaration order of the
\* arguments and, within an input object, of its fields, so the descriptors
\* under one argument or nested field are contiguous and precede those of
\* the next sibling.
C3_PreOrder ==
    Selected =>
        LET leaves == LeafSegments(SelectedArgs)
            n == Len(inputFields)
        IN  /\ \A i \in 1..n, j \in 1..n :
                   i < j =>
                       \E a \in leaves, b \in leaves :
                           /\ inputFields[i].name = DottedPath(a)
                           /\ inputFields[j].name = DottedPath(b)
                           /\ LexLess(IndexVector(SelectedArgs, a),
                                      IndexVector(SelectedArgs, b))
            /\ \A i \in 1..n, k \in 1..n, j \in 1..n :
                   (i < k /\ k < j) =>
                       \E a \in leaves, c \in leaves, b \in leaves :
                           /\ inputFields[i].name = DottedPath(a)
                           /\ inputFields[k].name = DottedPath(c)
                           /\ inputFields[j].name = DottedPath(b)
                           /\ \A m \in 1..Len(a) :
                                  (m <= Len(b) /\ Prefix(a, m) = Prefix(b, m)) =>
                                      (m <= Len(c) /\ Prefix(c, m) = Prefix(a, m))

C3_Witness ==
    /\ selectedMutation = Str(s_addUser)
    /\ [i \in 1..Len(inputFields) |-> inputFields[i].name]
         = << DottedPath(<< s_user, s_address, s_geo >>),
              DottedPath(<< s_user, s_address, s_city >>),
              DottedPath(<< s_user, s_name >>),
              s_n >>

\* C4: a descriptor is required exactly when the outermost kind of the
\* declared type of the field or argument it annotates is NON_NULL, whatever
\* the inner wrappers and the enclosing input objects are.
C4_RequiredIsOutermostNonNull ==
    Selected =>
        \A i \in 1..Len(inputFields) :
            \E segs \in LeafSegments(SelectedArgs) :
                /\ inputFields[i].name = DottedPath(segs)
                /\ inputFields[i].isRequired
                     <=> (DeclaredTypeAt(SelectedArgs, segs).kind = "NON_NULL")

\* user is optional, user.address.geo is a list of non-null items,
\* user.address.city is non-null
C4_Witness ==
    /\ selectedMutation = Str(s_addUser)
    /\ Len(inputFields) = 4
    /\ ~inputFields[1].isRequired
    /\ inputFields[2].isRequired
    /\ ~inputFields[3].isRequired

\* the value found in tree by following the keys segs, Null when a key is
\* missing or a scalar is in the way
RECURSIVE Walk(_, _)
Walk(tree, segs) ==
    IF segs = << >> THEN tree
    ELSE IF tree.t = "obj" /\ \E i \in 1..Len(tree.es) : tree.es[i].k = Head(segs)
    THEN Walk(tree.es[CHOOSE i \in 1..Len(tree.es) : tree.es[i].k = Head(segs)].v,
              Tail(segs))
    ELSE Null

\* the number of values of tree that are no objects
RECURSIVE CountLeaves(_)
CountLeaves(tree) ==
    IF tree.t # "obj" THEN 1
    ELSE LET sum[i \in 0..Len(tree.es)] ==
                 IF i = 0 THEN 0 ELSE sum[i - 1] + CountLeaves(tree.es[i].v)
         IN  sum[Len(tree.es)]

\* C2: with a value assigned to every leaf path of a compiled operation, the
\* tree built by buildNestedObject, read back by walking the segments of each
\* path, gives exactly the assigned value, and holds no other leaf.
C2_RoundTrip ==
    (call.fn = "buildNestedObject" /\ call.done) =>
        /\ call.ret.t = "obj"
        /\ CountLeaves(call.ret) = Len(call.entries)
        /\ \A i \in 1..Len(call.entries) :
               \E segs \in LeafSegments(call.args) :
                   /\ DottedPath(segs) = call.entries[i].k
                   /\ Walk(call.ret, segs) = call.entries[i].v

C2_Witness ==
    /\ call.fn = "buildNestedObject"
    /\ call.done
    /\ Len(call.entries) = 4
    /\ Walk(call.ret, << s_user, s_address, s_geo >>) = Num(42, 0)
    /\ Walk(call.ret, << s_user, s_address, s_city >>) = Str(s_Hello)
    /\ Walk(call.ret, << s_user, s_name >>) = Str(<< >>)
    /\ Walk(call.ret, << s_n >>) = Bool(FALSE)

\* C6: validateForm records an error for a path exactly when the path's
\* descriptor is required and the value mapping has no entry for the path or
\* has the empty string; so one omitted required path, the other required
\* paths being filled, gives an error for that path alone.
C6_ErrorIffRequiredMissing ==
    lastEvent = "handleSubmit" =>
        /\ \A p \in DOMAIN errors :
               /\ errors[p] = RequiredMessage
               /\ \E i \in 1..Len(inputFields) : inputFields[i].name = p
        /\ \A i \in 1..Len(inputFields) :
               (inputFields[i].name \in DOMAIN errors)
                 <=> /\ inputFields[i].isRequired
                     /\ \/ \A j \in 1..Len(formData) :
                              formData[j].k # inputFields[i].name
                        \/ \E j \in 1..Len(formData) :
                              /\ formData[j].k = inputFields[i].name
                              /\ formData[j].v = Str(<< >>)

\* setStatus(status: Status!, tags: [String!]!) with status filled, tags omitted
C6_Witness ==
    /\ lastEvent = "handleSubmit"
    /\ selectedMutation = Str(s_setStatus)
    /\ formData = << [k |-> s_status, v |-> Str(s_Hello)] >>
    /\ DOMAIN errors = { s_tags }

\* C7: a handleSubmit whose validation records an error sends no operation
\* string and leaves isSubmitting, submitStatus and errorMessages as they were.
C7_ValidationBlocksSubmit ==
    [][ (lastEvent' = "handleSubmit"
            /\ \E p \in DOMAIN errors' : errors'[p] = RequiredMessage)
          => /\ requests' = requests
             /\ isSubmitting' = isSubmitting
             /\ submitStatus' = submitStatus
             /\ errorMessages' = errorMessages ]_vars

\* a blocked submission after a successful one: the status is still "success"
C7_Witness ==
    /\ lastEvent = "handleSubmit"
    /\ \E p \in DOMAIN errors : errors[p] = RequiredMessage
    /\ submitStatus = "success"
    /\ requests = << >>
    /\ ~isSubmitting

Contains(s, sub) ==
    \E i \in 1..(Len(s) - Len(sub) + 1) : SubSeq(s, i, i + Len(sub) - 1) = sub

\* s is an optional sign followed by one or more decimal digits
IsNumeral(s) ==
    LET ds == IF s # << >> /\ s[1] \in {"-", "+"} THEN Tail(s) ELSE s
    IN  ds # << >> /\ \A i \in 1..Len(ds) : IsDigit(ds[i])

\* the integer a numeral denotes, digit by digit from the right
NumeralValue(s) ==
    LET ds == IF s[1] \in {"-", "+"} THEN Tail(s) ELSE s
        sum[i \in 0..Len(ds)] ==
            IF i = 0 THEN 0
            ELSE sum[i - 1] + DigitVal(ds[Len(ds) + 1 - i]) * pow10(i - 1)
    IN  IF s[1] = "-" THEN -sum[Len(ds)] ELSE sum[Len(ds)]

\* the numeral without "+", leading zeros and the sign of zero
CanonicalNumeral(s) ==
    LET ds == IF s[1] \in {"-", "+"} THEN Tail(s) ELSE s
        nz == { i \in 1..Len(ds) : ds[i] # "0" }
        first == CHOOSE i \in nz : \A j \in nz : i <= j
    IN  IF nz = {} THEN <<"0">>
        ELSE (IF s[1] = "-" THEN <<"-">> ELSE << >>) \o SubSeq(ds, first, Len(ds))

\* the part of a dotted path after its last dot
LastSegment(path) ==
    LET dots == { i \in 1..Len(path) : path[i] = "." }
        last == CHOOSE i \in dots : \A j \in dots : j <= i
    IN  IF dots = {} THEN path ELSE SubSeq(path, last + 1, Len(path))

IsTopLevel(path) == \A i \in 1..Len(path) : path[i] # "."

\* how the operation string shows the literal lit for the leaf at path:
\* "name: lit" for an argument, "name:lit" for a field of an input object,
\* followed by the delimiter that ends the literal
RendersLiteral(operation, path, lit) ==
    \E d \in {")", ",", "}"} :
        Contains(operation,
                 LastSegment(path)
                 \o (IF IsTopLevel(path) THEN <<":", " ">> ELSE <<":">>)
                 \o lit \o << d >>)

\* C10: for a leaf of declared type "Int" whose raw value is a base-10
\* numeral, coercion gives the integer the numeral denotes and the operation
\* string sent shows it as a bare number literal, without quotes.
C10_IntRenderedBare ==
    (lastEvent = "handleSubmit" /\ requests # << >>) =>
        \A i \in 1..Len(formData) :
            ( /\ \E j \in 1..Len(inputFields) :
                    /\ inputFields[j].name = formData[i].k
                    /\ inputFields[j].type = "Int"
              /\ IsNumeral(formData[i].v.s) ) =>
                /\ coerceFormData(inputFields, formData)[i].v
                     = Num(NumeralValue(formData[i].v.s), 0)
                /\ RendersLiteral(requests[Len(requests)].s, formData[i].k,
                                  CanonicalNumeral(formData[i].v.s))

\* updatePost(id: Int!) with the raw value "42"
C10_Witness ==
    /\ lastEvent = "handleSubmit"
    /\ selectedMutation = Str(s_updatePost)
    /\ formData = << [k |-> s_id, v |-> Str(<<"4","2">>)] >>
    /\ Len(requests) = 1
    /\ Contains(requests[1].s,
                s_updatePost \o <<"(","i","d",":"," ","4","2",")">>)

\* a nested Int leaf: user.address.geo with the raw value "-07"
C10_WitnessNested ==
    /\ lastEvent = "handleSubmit"
    /\ selectedMutation = Str(s_addUser)
    /\ \E i \in 1..Len(formData) :
          /\ formData[i].k = DottedPath(<< s_user, s_address, s_geo >>)
          /\ formData[i].v = Str(<<"-","0","7">>)
    /\ Len(requests) = 1
    /\ Contains(requests[1].s, <<"g","e","o",":","-","7">>)

\* the last operation string sent
LastRequest == requests[Len(requests)].s

Sent == lastEvent = "handleSubmit" /\ requests # << >>

\* the leaf type name of the descriptor at path, UndefinedType when none
TypeAt(path) ==
    IF \E j \in 1..Len(inputFields) : inputFields[j].name = path
    THEN inputFields[CHOOSE j \in 1..Len(inputFields) :
                        inputFields[j].name = path].type
    ELSE UndefinedType

IsEnumValue(type, s) ==
    /\ type \in DOMAIN EnumValues
    /\ \E v \in 1..Len(EnumValues[type]) : EnumValues[type][v] = s

\* C11: a leaf of an enum type whose raw value is one of the enum's value
\* names is shown in the operation string sent as the bare name, without
\* quotes (status: PUBLISHED).
C11_EnumRenderedBare ==
    Sent =>
        \A i \in 1..Len(formData) :
            IsEnumValue(TypeAt(formData[i].k), formData[i].v.s) =>
                RendersLiteral(LastRequest, formData[i].k, formData[i].v.s)

\* C12: every value that is a string after coercion is shown in the operation
\* string sent as its quoted and escaped string literal, whatever characters
\* it holds: the rewrite takes the quotes off the keys only.
C12_ValuesStayQuoted ==
    Sent =>
        \A i \in 1..Len(formData) :
            TypeAt(formData[i].k) \notin {"Int", "Float", "Boolean"} =>
                RendersLiteral(LastRequest, formData[i].k,
                               JsonQuote(formData[i].v.s))

\* the double quote at position j of s is not escaped by a backslash
IsQuoteAt(s, j) ==
    /\ s[j] = "\""
    /\ \E b \in 0..(j - 1) :
          /\ b % 2 = 0
          /\ \A x \in (j - b)..(j - 1) : s[x] = "\\"
          /\ (j - b = 1 \/ s[j - b - 1] # "\\")

\* position i of s lies inside a string literal
InLiteral(s, i) == Cardinality({ j \in 1..(i - 1) : IsQuoteAt(s, j) }) % 2 = 1

\* s[lo..hi] without the white space outside the string literals of s
RECURSIVE SqueezeRange(_, _, _)
SqueezeRange(s, lo, hi) ==
    IF lo > hi THEN << >>
    ELSE IF lo = hi
    THEN IF s[lo] \in WhiteSpace /\ ~InLiteral(s, lo) THEN << >> ELSE << s[lo] >>
    ELSE SqueezeRange(s, lo, (lo + hi) \div 2)
         \o SqueezeRange(s, (lo + hi) \div 2 + 1, hi)

Squeeze(s) == SqueezeRange(s, 1, Len(s))

\* a value printed as a GraphQL literal: an object as {field:value,...}
RECURSIVE PrintLiteral(_)
PrintLiteral(val) ==
    IF val.t = "obj"
    THEN <<"{">>
         \o Join([i \in 1..Len(val.es) |->
                     val.es[i].k \o <<":">> \o PrintLiteral(val.es[i].v)], <<",">>)
         \o <<"}">>
    ELSE JsonStringify(val)

\* mutation { <operationName>(<entries>) { id } } without white space
SqueezedTemplate(operationName, tree) ==
    <<"m","u","t","a","t","i","o","n","{">> \o operationName \o <<"(">>
    \o Join([i \in 1..Len(tree.es) |->
                tree.es[i].k \o <<":">> \o PrintLiteral(tree.es[i].v)], <<",">>)
    \o <<")","{","i","d","}","}">>

EndsWith(s, p) == Len(s) >= Len(p) /\ SubSeq(s, Len(s) - Len(p) + 1, Len(s)) = p

Scenario1 == <<"m","u","t","a","t","i","o","n"," ","{"," ","u","p","d","a","t","e","P","o","s","t","(","i","d",":"," ","4","2",")"," ","{"," ","i","d"," ","}"," ","}">>

Scenario2 == <<"m","u","t","a","t","i","o","n"," ","{"," ","c","r","e","a","t","e","P","o","s","t","(","i","n","p","u","t",":"," ","{","t","i","t","l","e",":"," ","\"","H","e","l","l","o","\"","}",")"," ","{"," ","i","d"," ","}"," ","}">>

IsScenario1 ==
    /\ selectedMutation = Str(s_updatePost)
    /\ formData = << [k |-> s_id, v |-> Str(<<"4","2">>)] >>

IsScenario2 ==
    /\ selectedMutation = Str(s_createPost)
    /\ formData = << [k |-> DottedPath(<< s_input, s_title >>), v |-> Str(s_Hello)] >>

NestedTree == buildNestedObject(coerceFormData(inputFields, formData))

Edited(path) == \E i \in 1..Len(formData) : formData[i].k = path

\* the operation string has an entry with the key seg
KeyShown(operation, seg) ==
    \E d \in {"(", "{", ",", " "} : Contains(operation, << d >> \o seg \o <<":">>)

\* the leaf paths below the argument or field chain segs
PathsBelow(segs) ==
    { s \in LeafSegments(SelectedArgs) :
        Len(s) >= Len(segs) /\ SubSeq(s, 1, Len(segs)) = segs }

\* the argument and field chains of the selected operation: the leaf paths and
\* their prefixes
Chains ==
    UNION { { SubSeq(s, 1, n) : n \in 1..Len(s) } : s \in LeafSegments(SelectedArgs) }

\* C14: a path without an entry in the value mapping is neither in the nested
\* tree nor in the operation string sent, not even as null or as an empty
\* value, and an argument or input object none of whose leaves has an entry
\* is left out as well.
C14_UneditedOmitted ==
    Sent =>
        \A segs \in { c \in Chains : \A s \in PathsBelow(c) : ~Edited(DottedPath(s)) } :
            /\ Walk(NestedTree, segs) = Null
            /\ ~KeyShown(LastRequest, segs[Len(segs)])

\* deletePosts(filter: PostFilter, limit: Int) with only limit edited
C14_Witness ==
    /\ Sent
    /\ selectedMutation = Str(s_deletePosts)
    /\ formData = << [k |-> s_limit, v |-> Str(<<"4","2">>)] >>
    /\ Walk(NestedTree, << s_limit >>) = Num(42, 0)
    /\ ~KeyShown(LastRequest, s_filter)

\* C15: every operation string sent is a well-formed GraphQL operation; in
\* particular the parentheses after the operation name are never empty.
C15_ArgumentListNeverEmpty ==
    \A i \in 1..Len(requests) : ~Contains(requests[i].s, <<"(", ")">>)

\* the chains of argument and field names that lead to an input object
NodeChains(args) ==
    UNION { { SubSeq(s, 1, n) : n \in 1..(Len(s) - 1) } : s \in LeafSegments(args) }

\* C16: whatever the order of the path/value pairs, the paths that share a
\* prefix give exactly one node for that prefix, and the node holds the leaves
\* of all of them.
C16_OneNodePerPrefix ==
    (call.fn = "buildNestedObject" /\ call.done) =>
        \A c \in NodeChains(call.args) :
            LET parent == Walk(call.ret, SubSeq(c, 1, Len(c) - 1))
            IN  /\ parent.t = "obj"
                /\ Cardinality({ i \in 1..Len(parent.es) :
                                   parent.es[i].k = c[Len(c)] }) = 1
                /\ Walk(call.ret, c).t = "obj"
                /\ \A i \in 1..Len(call.entries) :
                       \A s \in LeafSegments(call.args) :
                           ( /\ DottedPath(s) = call.entries[i].k
                             /\ Len(s) > Len(c)
                             /\ SubSeq(s, 1, Len(c)) = c ) =>
                               Walk(Walk(call.ret, c), SubSeq(s, Len(c) + 1, Len(s)))
                                 = call.entries[i].v

\* addUser with user.name first and user.address.geo last: the nodes user and
\* user.address were created by an earlier pair and hold both of their leaves
C16_Witness ==
    /\ call.fn = "buildNestedObject"
    /\ call.done
    /\ Len(call.entries) = 4
    /\ call.entries[1].k = DottedPath(<< s_user, s_name >>)
    /\ call.entries[2].k = DottedPath(<< s_user, s_address, s_city >>)
    /\ call.entries[4].k = DottedPath(<< s_user, s_address, s_geo >>)
    /\ Len(Walk(call.ret, << s_user >>).es) = 2
    /\ Len(Walk(call.ret, << s_user, s_address >>).es) = 2

\* C17: selecting a name the schema has no operation for, such as the
\* placeholder option, at any point, leaves the form with an empty descriptor
\* set.
C17_MissingOperationEmptiesForm ==
    [][handleMutationSelect(<< >>) => inputFields' = << >>]_vars

\* the paths of the descriptors in fields
PathsOf(fields) == { fields[i].name : i \in 1..Len(fields) }

\* C18: selecting an operation of the schema makes the descriptor set the one
\* of that operation alone and, in the same step, empties the value mapping
\* and the error mapping.
C18_SelectReplacesAndResets ==
    [][ \A m \in 1..Len(MutationFields) :
          (schema # Null /\ handleMutationSelect(MutationFields[m].name)) =>
              /\ selectedMutation' = Str(MutationFields[m].name)
              /\ PathsOf(inputFields')
                   = { DottedPath(s) : s \in LeafSegments(MutationFields[m].args) }
              /\ Len(inputFields') = Cardinality(LeafSegments(MutationFields[m].args))
              /\ formData' = << >>
              /\ errors' = << >> ]_vars

\* createPost selected after fields of an operation were edited
C18_Witness ==
    /\ lastEvent = "handleMutationSelect"
    /\ selectedMutation = Str(s_createPost)
    /\ edits > 0
    /\ PathsOf(inputFields) = { DottedPath(<< s_input, s_title >>),
                                DottedPath(<< s_input, s_published >>) }
    /\ formData = << >>
    /\ errors = << >>

\* C19: in every reachable state the keys of the value mapping are paths of
\* the current descriptor set, which is the one of the selected operation; so
\* handleSubmit never serializes a path of a previously selected operation.
C19_ValueKeysAreCurrentPaths ==
    /\ \A i \in 1..Len(formData) : formData[i].k \in PathsOf(inputFields)
    /\ Selected =>
          PathsOf(inputFields) = { DottedPath(s) : s \in LeafSegments(SelectedArgs) }
    /\ ~Selected => inputFields = << >>

\* updatePost was edited and submitted, then createPost selected and edited
C19_Witness ==
    /\ Len(requests) = 1
    /\ Contains(requests[1].s, s_updatePost \o <<"(","i","d",":"," ","4","2",")">>)
    /\ selectedMutation = Str(s_createPost)
    /\ formData = << [k |-> DottedPath(<< s_input, s_title >>), v |-> Str(s_Hello)] >>

\* C20: in every interleaving of selections, edits, submissions and responses
\* at most one execution request is outstanding, and it is outstanding only
\* while isSubmitting is true, when no submission can start.
C20_AtMostOneRequest ==
    /\ Len(requests) <= 1
    /\ requests # << >> => (isSubmitting /\ ~canSubmit)

\* a request is outstanding while another operation is selected and edited
C20_Witness ==
    /\ Len(requests) = 1
    /\ isSubmitting
    /\ lastEvent = "handleChange"
    /\ ~Contains(requests[1].s, selectedMutation.s)

\* C21: whatever way the execution request settles, handleSubmit ends with an
\* outcome in the state: an error list gives "error" with the messages of the
\* list, a failure gives "error" with exactly one message, a response without
\* errors gives "success" with no message; so "error" always comes with at
\* least one message.
C21_OutcomeInState ==
    /\ [](submitStatus = "error" => errorMessages # << >>)
    /\ [][ /\ \A i \in 1..Len(requests), m \in ErrorLists :
                responseErrors(i, m) => (submitStatus' = "error" /\ errorMessages' = m)
           /\ \A i \in 1..Len(requests) :
                responseFailure(i) => (submitStatus' = "error" /\ Len(errorMessages') = 1)
           /\ \A i \in 1..Len(requests) :
                responseSuccess(i) => (submitStatus' = "success" /\ errorMessages' = << >>)
           /\ lastEvent' = "response" =>
                (~isSubmitting' /\ submitStatus' \in {"error", "success"}) ]_vars

\* a response with two errors has settled the request
C21_Witness ==
    /\ lastEvent = "response"
    /\ submitStatus = "error"
    /\ Len(errorMessages) = 2
    /\ requests = << >>

\* s is not empty and does not begin like a number
NonNumeric(s) ==
    /\ s # << >>
    /\ ~IsDigit(s[1])
    /\ s[1] \notin {"+", "-", ".", "I"} \cup WhiteSpace

\* C22: a non-empty value that is no number, entered for an Int or Float
\* leaf, gives no validation error for the leaf; when no other leaf has an
\* error, coercion gives NaN without raising and the operation string is
\* sent, the leaf being shown as null.
C22_NonNumericIsSent ==
    lastEvent = "handleSubmit" =>
        \A i \in 1..Len(formData) :
            (TypeAt(formData[i].k) \in {"Int", "Float"} /\ NonNumeric(formData[i].v.s)) =>
                /\ formData[i].k \notin DOMAIN errors
                /\ errors = << >> =>
                      /\ Len(requests) = 1
                      /\ isSubmitting
                      /\ coerceFormData(inputFields, formData)[i].v = NaN
                      /\ RendersLiteral(LastRequest, formData[i].k, s_null)

\* updatePost(id: Int!) with the raw value "Hello"
C22_Witness ==
    /\ Sent
    /\ selectedMutation = Str(s_updatePost)
    /\ formData = << [k |-> s_id, v |-> Str(s_Hello)] >>
    /\ Contains(LastRequest, s_updatePost \o <<"(","i","d",":"," ">> \o s_null \o <<")">>)

\* the input-object types that the fields of the type n of the table refer to
RefersTo(types, n) ==
    { NamedTypeOf(types[n][i].type).name :
        i \in { j \in 1..Len(types[n]) :
                  NamedTypeOf(types[n][j].type).kind = "INPUT_OBJECT" } }

\* the types reached from the set from in one to k references
RECURSIVE ReachedIn(_, _, _)
ReachedIn(types, from, k) ==
    IF k = 0 THEN {}
    ELSE LET next == UNION { RefersTo(types, n) : n \in from }
         IN  next \cup ReachedIn(types, next, k - 1)

ReachedFrom(types, n) == ReachedIn(types, {n}, Cardinality(DOMAIN types))

\* an input object reachable from root refers to itself, directly or not
HasCycle(types, root) ==
    \E n \in {root} \cup ReachedFrom(types, root) : n \in ReachedFrom(types, n)

CyclicCall == HasCycle(call.types, call.root)

\* C23: the compilation of an argument returns when no input object reachable
\* from it lies on a cycle; when one does, it never returns and the call
\* stack grows to whatever depth it is allowed.
C23_TerminatesIffAcyclic ==
    /\ ~CyclicCall => <>(call.done /\ call.stack = << >>)
    /\ [](CyclicCall => ~call.done)
    /\ CyclicCall => <>(Len(call.stack) = MaxDepth)
    /\ []((call.done /\ call.types = InputObjectFields) =>
            call.extracted = extractFieldsRecursively(s_a, InputObj(call.root)))

\* B refers to C and C to B: the stack is full after the descriptors a.x,
\* a.y.x, a.y.y.x, ..
C23_Witness ==
    /\ call.fn = "extractFieldsRecursively"
    /\ call.root = "A"
    /\ RefersTo(call.types, "A") = {"B"}
    /\ RefersTo(call.types, "B") = {"C"}
    /\ RefersTo(call.types, "C") = {"B"}
    /\ Len(call.stack) = MaxDepth
    /\ Len(call.extracted) = MaxDepth
    /\ ~call.done

\* C24: a submission that has started (isSubmitting is true) is followed by
\* isSubmitting being false again, however the execution request settles.
C24_SubmissionEnds == isSubmitting ~> ~isSubmitting

\* a submission that ended with a network failure
C24_Witness ==
    /\ lastEvent = "response"
    /\ ~isSubmitting
    /\ submitStatus = "error"
    /\ errorMessages = << NetworkMessage >>

\* the outstanding request was sent for another operation than the selected one
StaleRequest ==
    /\ requests # << >>
    /\ ~Contains(requests[1].s, selectedMutation.s \o <<"(">>)

\* C25: the outcome of a submission that was started for the previously
\* selected operation is not displayed on the form of the operation selected
\* since: when its request settles, submitStatus stays "" and errorMessages
\* stays empty.
C25_NoStaleOutcome ==
    [][ (StaleRequest /\ lastEvent' = "response") =>
            (submitStatus' = "" /\ errorMessages' = << >>) ]_vars

\* the path q followed by a dot begins the path p
SegmentPrefix(q, p) ==
    Len(p) > Len(q) /\ SubSeq(p, 1, Len(q) + 1) = q \o <<".">>

\* the leaves of a tree: the key chain of each value that is no object
RECURSIVE LeavesOf(_)
LeavesOf(tree) ==
    IF tree.t # "obj" THEN { << << >>, tree >> }
    ELSE UNION { { << << tree.es[i].k >> \o l[1], l[2] >> : l \in LeavesOf(tree.es[i].v) } :
                 i \in 1..Len(tree.es) }

\* every descriptor path paired with a value that names it
PathValues == [i \in 1..Len(inputFields) |->
                  [k |-> inputFields[i].name, v |-> Str(inputFields[i].name)]]

\* C26: the paths of a compiled descriptor set are pairwise distinct and none
\* is a dot-segment prefix of another; so buildNestedObject, given a value for
\* every path, meets no leaf where it needs a node and no node where it sets
\* a leaf, and builds the same leaves from the pairs in either order.
C26_PathsDistinctPrefixFree ==
    Selected =>
        /\ \A i \in 1..Len(inputFields), j \in 1..Len(inputFields) :
               i # j => /\ inputFields[i].name # inputFields[j].name
                        /\ ~SegmentPrefix(inputFields[i].name, inputFields[j].name)
        /\ buildNestedObject(PathValues) # Threw
        /\ buildNestedObject(Reversed(PathValues)) # Threw
        /\ Cardinality(LeavesOf(buildNestedObject(PathValues))) = Len(inputFields)
        /\ LeavesOf(buildNestedObject(PathValues))
             = LeavesOf(buildNestedObject(Reversed(PathValues)))
        /\ \A i \in 1..Len(inputFields) :
               \E l \in LeavesOf(buildNestedObject(PathValues)) :
                   DottedPath(l[1]) = inputFields[i].name /\ l[2] = Str(inputFields[i].name)

\* op(a1: UserInput, a2: [[UserInput]]): the same input object under two
\* arguments
C26_Witness ==
    /\ selectedMutation = Str(s_op)
    /\ Len(inputFields) = 6
    /\ inputFields[1].name = DottedPath(<< ArgName(1), s_address, s_geo >>)
    /\ inputFields[4].name = DottedPath(<< ArgName(2), s_address, s_geo >>)
    /\ Cardinality(LeavesOf(buildNestedObject(PathValues))) = 6

\* how the empty string is shown for a leaf of the given type
EmptyLiteral(type) ==
    IF type \in {"Int", "Float"} THEN s_null
    ELSE IF type = "Boolean" THEN s_false
    ELSE <<"\"", "\"">>

\* C27: the leaf paths of the nested tree handleSubmit builds are the keys of
\* the value mapping, whatever the values are; an entry that was set back to
\* the empty string is coerced by its leaf type and is in the operation string
\* sent.
C27_ClearedStillSerialized ==
    Sent =>
        /\ { DottedPath(l[1]) : l \in LeavesOf(NestedTree) }
             = { formData[i].k : i \in 1..Len(formData) }
        /\ \A i \in 1..Len(formData) :
               formData[i].v = Str(<< >>) =>
                   /\ Walk(NestedTree, split(formData[i].k))
                        = coerceValues(Str(<< >>), TypeAt(formData[i].k))
                   /\ RendersLiteral(LastRequest, formData[i].k,
                                     EmptyLiteral(TypeAt(formData[i].k)))

\* deletePosts: limit was edited twice, the second time to the empty string
C27_Witness ==
    /\ Sent
    /\ selectedMutation = Str(s_deletePosts)
    /\ edits = 2
    /\ formData = << [k |-> s_limit, v |-> Str(<< >>)] >>
    /\ Contains(LastRequest, s_deletePosts \o <<"(">> \o s_limit \o <<":"," ">>
                                \o s_null \o <<")">>)

=============================================================================
